---- MODULE Spec2Model ----
(***************************************************************************)
(* eDyrr/url-shortener: the short-code generator (package shortener), the  *)
(* Redis-backed mapping store (package store), the two gin handlers        *)
(* (package handler) and main.                                             *)
(*                                                                         *)
(* Strings are sequences of one-character strings.  Time is counted in     *)
(* hours.  Numbers wider than 31 bits (the 64-bit value taken from the     *)
(* digest) are kept as digit sequences: base 256 for []byte, base 10 for   *)
(* the text fmt.Sprintf("%d") produces.                                    *)
(***************************************************************************)
EXTENDS Integers, Sequences, FiniteSets, TLC

VARIABLES
    pc,           \* where the process is: "main" | "main0" | "init" | "serving" |
                  \* "serving0" | "testing" | "gentest" | "crashed"
    redisClient,  \* storeService.redisClient: "nil" | "client"
    redisUp,      \* whether the Redis server at localhost:6379 answers
    db,           \* the Redis keyspace: key -> [val, exp]
    now,          \* wall clock, hours
    digest,       \* SHA-256 as a fixed function of its input
    lastPut,      \* history: key -> the most recent Set the server accepted
    pinged,       \* history: how InitializeStore's Ping ended: "no" | "pong" | "fail"
    call,         \* the most recent call of a store function
    gen,          \* the most recent call of the generator
    firstGen,     \* history: the first call of the generator
    resp,         \* the most recent HTTP response
    tasks,        \* concurrent serving: what each request goroutine is doing
    puts          \* history: the Sets the concurrent handlers have sent

vars == <<pc, redisClient, redisUp, db, now, digest, lastPut, pinged, call,
          gen, firstGen, resp, tasks, puts>>

\* the state of the concurrent handlers
conc == <<tasks, puts>>

None == "none"

----------------------------------------------------------------------------
(* Bounds of the model *)

\* the clock stops here
MaxTime == 9
\* how far one step of the clock advances it
TickStep == 3
\* request goroutines running at once
NumHandlers == 2

----------------------------------------------------------------------------
(* package shortener *)

\* a faulty variant: an alphabet that starts at "0" and keeps "l"
BitcoinAlphabetWithZero ==
    << "0","1","2","3","4","5","6","7","8","9",
       "A","B","C","D","E","F","G","H","J","K","L","M","N","P","Q","R","S","T",
       "U","V","W","X","Y","Z",
       "a","b","c","d","e","f","g","h","i","j","k","l","m","n","o","p","q","r",
       "s","t","u","v","w","x" >>

\* base58.BitcoinEncoding's alphabet
BitcoinAlphabet ==
    << "1","2","3","4","5","6","7","8","9",
       "A","B","C","D","E","F","G","H","J","K","L","M","N","P","Q","R","S","T",
       "U","V","W","X","Y","Z",
       "a","b","c","d","e","f","g","h","i","j","k","m","n","o","p","q","r","s",
       "t","u","v","w","x","y","z" >>

\* the digits "0".."9" as fmt prints them
DecimalDigits == << "0","1","2","3","4","5","6","7","8","9" >>

DigitValue(ch) == CHOOSE v \in 0..9 : DecimalDigits[v + 1] = ch

\* big.Int's normal form: no leading zero digit
RECURSIVE StripZeros(_)
StripZeros(ds) ==
    IF ds # <<>> /\ Head(ds) = 0 THEN StripZeros(Tail(ds)) ELSE ds

\* long division of the base-`base` digit sequence ds by d:
\* [q |-> quotient digits (not normalised), r |-> remainder]
RECURSIVE DivModDigits(_, _, _, _, _)
DivModDigits(ds, base, d, i, acc) ==
    IF i > Len(ds)
    THEN acc
    ELSE LET cur == acc.r * base + ds[i]
         IN  DivModDigits(ds, base, d, i + 1,
                          [q |-> Append(acc.q, cur \div d), r |-> cur % d])

DivMod(ds, base, d) ==
    LET res == DivModDigits(ds, base, d, 1, [q |-> <<>>, r |-> 0])
    IN  [q |-> StripZeros(res.q), r |-> res.r]

\* new(big.Int).SetBytes(b): the big-endian bytes as a number
SetBytes(bytes) == StripZeros(bytes)

\* (*big.Int).Uint64(): the low 64 bits
Uint64(n) ==
    IF Len(n) <= 8 THEN n ELSE StripZeros(SubSeq(n, Len(n) - 7, Len(n)))

\* fmt.Sprintf("%d", n)
RECURSIVE DecimalOf(_, _)
DecimalOf(n, acc) ==
    IF n = <<>>
    THEN acc
    ELSE LET dm == DivMod(n, 256, 10)
         IN  DecimalOf(dm.q, <<DecimalDigits[dm.r + 1]>> \o acc)

Sprintf(n) == IF n = <<>> THEN <<"0">> ELSE DecimalOf(n, <<>>)

\* the leading "0" characters of src
RECURSIVE LeadingZeros(_)
LeadingZeros(src) ==
    IF src # <<>> /\ Head(src) = "0" THEN 1 + LeadingZeros(Tail(src)) ELSE 0

RECURSIVE EncodeDigits(_, _, _)
EncodeDigits(n, alphabet, acc) ==
    IF n = <<>>
    THEN acc
    ELSE LET dm == DivMod(n, 10, Len(alphabet))
         IN  EncodeDigits(dm.q, alphabet, <<alphabet[dm.r + 1]>> \o acc)

\* (*base58.Encoding).Encode(src): src is a number in decimal text; each
\* leading zero becomes the alphabet's first symbol, the rest is the number
\* in base 58, most significant symbol first.  err is TRUE when src is no
\* number.
Encode(src, alphabet) ==
    IF src = <<>>
    THEN [err |-> FALSE, out |-> <<>>]
    ELSE IF \E i \in 1..Len(src) : \A v \in 0..9 : DecimalDigits[v + 1] # src[i]
    THEN [err |-> TRUE, out |-> <<>>]
    ELSE LET n == StripZeros([i \in 1..Len(src) |-> DigitValue(src[i])])
             zeros == [i \in 1..LeadingZeros(src) |-> alphabet[1]]
         IN  [err |-> FALSE, out |-> zeros \o EncodeDigits(n, alphabet, <<>>)]

\* base58Encoded(bytes): "exit" stands for os.Exit(1)
base58Encoded(bytes) ==
    LET e == Encode(bytes, BitcoinAlphabet)
    IN  IF e.err THEN [ret |-> "exit", val |-> <<>>]
                 ELSE [ret |-> "ok", val |-> e.out]

----------------------------------------------------------------------------
(* SHA-256 digests the model draws from, and the request fields *)

\* sha256 of TestShortLinkGenerator's initialLink1 followed by UserId:
\* the test expects the code jTa4L57P for it
DigestGuru ==
    << 142, 100, 66, 43, 71, 31, 174, 44, 88, 229, 143, 131, 203, 193, 210,
       213, 31, 136, 233, 101, 167, 48, 33, 28, 253, 215, 37, 36, 31, 3, 19, 1 >>

\* sha256 of "https://example.com/16512211" followed by "u1": its last
\* 8 bytes are 405157933534, which is below 58^7
DigestShort ==
    << 143, 147, 230, 251, 253, 109, 20, 196, 126, 171, 38, 228, 99, 149, 165,
       118, 175, 182, 254, 115, 71, 202, 216, 236, 0, 0, 0, 94, 85, 75, 113, 222 >>

HighBytes == [i \in 1..24 |-> 255]

\* last 8 bytes = 58^7, the least value with 8 base-58 symbols
DigestEdge == HighBytes \o << 0, 0, 2, 2, 22, 28, 170, 128 >>
\* last 8 bytes = 58^7 - 1
DigestBelow == HighBytes \o << 0, 0, 2, 2, 22, 28, 170, 127 >>
\* last 8 bytes = 0
DigestZero == HighBytes \o [i \in 1..8 |-> 0]
\* last 8 bytes = 2^64 - 1
DigestMax == HighBytes \o [i \in 1..8 |-> 255]

ServiceDigests == {DigestGuru, DigestShort, DigestEdge}
AllDigests == {DigestGuru, DigestShort, DigestEdge, DigestBelow, DigestZero, DigestMax}

\* request fields: the (long_url, user_id) pairs of the creation requests;
\* the first two pairs concatenate to the same string
Requests == { << <<"a">>, <<"b", "c">> >>,
              << <<"a", "b">>, <<"c">> >>,
              << <<"a">>, <<"c">> >> }
\* a request that fails the binding: a required field is empty
BadRequests == { << <<>>, <<"c">> >>, << <<"a">>, <<>> >> }
\* what the generator hashes
Inputs == { q[1] \o q[2] : q \in Requests }

----------------------------------------------------------------------------
(* GeneratedLink *)

\* sha256 of the input string: 32 bytes, a function of the input alone
sha2560f(input) == digest[input]

\* GeneratedLink from the digest on: the number in its low 64 bits, printed
\* in decimal, encoded, cut to 8 symbols.  ret is "ok" with the code in val,
\* "panic" when finalString[:8] is out of range, "exit" on os.Exit
LinkOfHash(urlHashBytes) ==
    LET generatedNumber == Uint64(SetBytes(urlHashBytes))
        finalString == base58Encoded(Sprintf(generatedNumber))
    IN  IF finalString.ret # "ok" THEN finalString
        ELSE IF Len(finalString.val) < 8 THEN [ret |-> "panic", val |-> <<>>]
        ELSE [ret |-> "ok", val |-> SubSeq(finalString.val, 1, 8)]

\* LinkOfHash, tabulated over the digests of the model
LinkTable == [d \in AllDigests |-> LinkOfHash(d)]

\* a faulty variant: the time of the call enters the hash
GeneratedLinkByClock(initialLink, userId) ==
    LET urlHashBytes == IF now = 0 THEN sha2560f(initialLink \o userId)
                        ELSE DigestMax
    IN  LinkTable[urlHashBytes]

\* a faulty variant: the length of the url is hashed in front of it, so the
\* digest is no longer that of the bare concatenation
GeneratedLinkLengthPrefixed(initialLink, userId) ==
    LET urlHashBytes == IF Len(initialLink) = 1
                        THEN sha2560f(initialLink \o userId)
                        ELSE DigestMax
    IN  LinkTable[urlHashBytes]

\* GeneratedLink(initialLink, userId)
GeneratedLink(initialLink, userId) ==
    LET urlHashBytes == sha2560f(initialLink \o userId)
    IN  LinkTable[urlHashBytes]

----------------------------------------------------------------------------
(* Keys of the store *)

\* the keys the store's own test writes and reads
TestKeys == { <<"J","s","z","4","k","5","7","o","A","X">>, <<"k","2">> }
\* a path segment no creation ever produced
UnknownCode == <<"n","o","p","e">>

\* the digest table under which the store's test binary runs (it never hashes)
DefaultDigest == [i \in Inputs |-> DigestGuru]

----------------------------------------------------------------------------
(* package store *)

\* const CacheDuration = 6 * time.Hour
CacheDuration == 6

\* Redis: the keys of d still alive at time t
Expire(d, t) ==
    LET live == { k \in DOMAIN d : d[k].exp > t }
    IN  [k \in live |-> d[k]]

\* a faulty variant: SET ... NX, which keeps an existing key
RedisSetNX(d, key, val, ttl) ==
    IF key \in DOMAIN Expire(d, now)
    THEN d
    ELSE [k \in DOMAIN d \cup {key} |->
            IF k = key THEN [val |-> val, exp |-> now + ttl] ELSE d[k]]

\* a faulty variant: the keyspace is emptied before the key is written
RedisSetAfterFlush(d, key, val, ttl) ==
    [k \in {key} |-> [val |-> val, exp |-> now + ttl]]

\* Redis SET key val EX ttl
RedisSet(d, key, val, ttl) ==
    [k \in DOMAIN d \cup {key} |->
        IF k = key THEN [val |-> val, exp |-> now + ttl] ELSE d[k]]

\* Redis GET key: redis.Nil for a key that is absent or expired
RedisGet(d, key) ==
    IF key \in DOMAIN Expire(d, now)
    THEN [nil |-> FALSE, val |-> d[key].val]
    ELSE [nil |-> TRUE, val |-> <<>>]

\* a faulty variant: the client is never assigned to storeService
InitializeStoreUnassigned ==
    IF ~redisUp
    THEN [ret |-> "panic", client |-> redisClient]
    ELSE [ret |-> "ok", client |-> redisClient]

\* a faulty variant: the client is kept whatever Ping answered
InitializeStoreUnchecked ==
    [ret |-> "ok", client |-> "client"]

\* InitializeStore(): Ping, panic on its error, else set and return the client
InitializeStore ==
    IF ~redisUp
    THEN [ret |-> "panic", client |-> redisClient]
    ELSE [ret |-> "ok", client |-> "client"]

\* a faulty variant: the user id is stored as the value
SaveUrlMappingUserId(shortUrl, originalUrl, userId) ==
    IF redisClient = "nil" \/ ~redisUp
    THEN [ret |-> "panic", err |-> "conn", db |-> db]
    ELSE [ret |-> "ok", err |-> None,
          db |-> RedisSet(db, shortUrl, userId, CacheDuration)]

\* SaveUrlMapping(shortUrl, originalUrl, userId): ret is "ok" or "panic";
\* err is "nilclient" (nil pointer), "conn" (no answer from Redis) or none
SaveUrlMapping(shortUrl, originalUrl, userId) ==
    IF redisClient = "nil"
    THEN [ret |-> "panic", err |-> "nilclient", db |-> db]
    ELSE IF ~redisUp
    THEN [ret |-> "panic", err |-> "conn", db |-> db]
    ELSE [ret |-> "ok", err |-> None,
          db |-> RedisSet(db, shortUrl, originalUrl, CacheDuration)]

\* RetrieveInitialUrl(shortUrl): ret is "ok" with the value in val, or
\* "panic"; err is "nilclient", "conn", "redis: nil" (the key is not there)
\* or none
RetrieveInitialUrl(shortUrl) ==
    IF redisClient = "nil"
    THEN [ret |-> "panic", err |-> "nilclient", val |-> <<>>]
    ELSE IF ~redisUp
    THEN [ret |-> "panic", err |-> "conn", val |-> <<>>]
    ELSE LET r == RedisGet(db, shortUrl)
         IN  IF r.nil
             THEN [ret |-> "panic", err |-> "redis: nil", val |-> <<>>]
             ELSE [ret |-> "ok", err |-> None, val |-> r.val]

----------------------------------------------------------------------------
(* What the most recent operation did *)

NoCall == [fn |-> None, key |-> <<>>, url |-> <<>>, ret |-> None, err |-> None,
           val |-> <<>>, at |-> 0]
NoGen == [link |-> <<>>, user |-> <<>>, ret |-> None, val |-> <<>>]
NoResp == [req |-> None, path |-> <<>>, status |-> 0, body |-> <<>>]

\* the record of a SaveUrlMapping call that returned s
SaveCall(shortUrl, originalUrl, s) ==
    [fn |-> "SaveUrlMapping", key |-> shortUrl, url |-> originalUrl,
     ret |-> s.ret, err |-> s.err, val |-> <<>>, at |-> now]

\* the record of a RetrieveInitialUrl call that returned r
RetrieveCall(shortUrl, r) ==
    [fn |-> "RetrieveInitialUrl", key |-> shortUrl, url |-> <<>>,
     ret |-> r.ret, err |-> r.err, val |-> r.val, at |-> now]

\* the history of puts after a SaveUrlMapping call that returned s: the
\* url put, when, and in over the url of the put it came on top of while
\* that one was within its time to live (<<>> if there was none)
PutHistory(shortUrl, originalUrl, s) ==
    IF s.ret = "ok"
    THEN [k \in DOMAIN lastPut \cup {shortUrl} |->
            IF k = shortUrl
            THEN [url |-> originalUrl, at |-> now,
                  over |-> IF shortUrl \in DOMAIN lastPut
                              /\ now - lastPut[shortUrl].at < CacheDuration
                           THEN lastPut[shortUrl].url ELSE <<>>]
            ELSE lastPut[k]]
    ELSE lastPut

\* an HTTP response: the request it answers (method, and for GET the path
\* segment), the status, and the short_url or the Location it carries
Response(method, segment, status, body) ==
    [req |-> method, path |-> segment, status |-> status, body |-> body]

GenCall(initialLink, userId, g) ==
    [link |-> initialLink, user |-> userId, ret |-> g.ret, val |-> g.val]

----------------------------------------------------------------------------
(* package handler and main *)

StatusOK == 200
StatusFound == 302
StatusBadRequest == 400
\* gin.Default() installs Recovery: a panic in a handler is answered with 500
StatusInternalServerError == 500

\* host := "http://localhost:9808/"
Host == << "http://localhost:9808/" >>

\* "message": "hey Go URL shortener"
RootMessage == << "hey Go URL shortener" >>

\* the parameter name of the route main registers: r.GET("/:shortUrl", ...)
RouteParam == "shortUrl"

\* a faulty variant: the handler asks for a parameter the route does not have
ParamMisnamed(segment, name) == <<>>

\* c.Param(name) for a request whose path is "/" followed by segment
Param(segment, name) == IF name = RouteParam THEN segment ELSE <<>>

\* the path segments a redirect is asked for: every code the generator can
\* return, and one it cannot
RequestCodes ==
    { GeneratedLink(p[1], p[2]).val :
        p \in { q \in Requests : GeneratedLink(q[1], q[2]).ret = "ok" } }
    \cup { UnknownCode }

\* main, up to r.Run: the routes are registered, then store.InitializeStore()
\* runs; its panic ends the process before the server listens
MainStart ==
    /\ pc = "main"
    /\ LET r == InitializeStore
       IN  /\ redisClient' = r.client
           /\ pc' = IF r.ret = "panic" THEN "crashed" ELSE "serving"
    /\ pinged' = IF redisUp THEN "pong" ELSE "fail"
    /\ UNCHANGED <<redisUp, db, now, digest, lastPut, call, gen, firstGen, resp>>
    /\ UNCHANGED conc

\* the main of main.go: it registers GET / alone and runs the server; the
\* store is not touched
RootMainStart ==
    /\ pc = "main0"
    /\ pc' = "serving0"
    /\ UNCHANGED <<redisClient, redisUp, db, now, digest, lastPut, pinged, call,
                   gen, firstGen, resp>>
    /\ UNCHANGED conc

\* GET /, which both mains register: 200 with a greeting
ServeRoot ==
    /\ pc \in {"serving", "serving0"}
    /\ resp' = Response("GET /", <<>>, StatusOK, RootMessage)
    /\ call' = NoCall
    /\ gen' = NoGen
    /\ UNCHANGED <<pc, redisClient, redisUp, db, now, digest, lastPut, pinged,
                   firstGen>>
    /\ UNCHANGED conc

\* the store test's init(): testStoreService = InitializeStore()
TestInit ==
    /\ pc = "init"
    /\ LET r == InitializeStore
       IN  /\ redisClient' = r.client
           /\ pc' = IF r.ret = "panic" THEN "crashed" ELSE "testing"
    /\ pinged' = IF redisUp THEN "pong" ELSE "fail"
    /\ UNCHANGED <<redisUp, db, now, digest, lastPut, call, gen, firstGen, resp>>
    /\ UNCHANGED conc

\* POST /create-short-url with body {long_url, user_id}; an empty field
\* fails the "required" binding
CreateShortUrl(long_url, user_id) ==
    /\ pc = "serving"
    /\ IF long_url = <<>> \/ user_id = <<>>
       THEN /\ resp' = Response("POST", <<>>, StatusBadRequest, <<>>)
            /\ gen' = NoGen
            /\ call' = NoCall
            /\ UNCHANGED <<pc, db, lastPut, firstGen>>
       ELSE LET g == GeneratedLink(long_url, user_id)
                s == SaveUrlMapping(g.val, long_url, user_id)
            IN  /\ gen' = GenCall(long_url, user_id, g)
                /\ firstGen' = IF firstGen.ret = None
                               THEN GenCall(long_url, user_id, g) ELSE firstGen
                /\ IF g.ret = "exit"
                   THEN /\ pc' = "crashed"
                        /\ resp' = NoResp
                        /\ call' = NoCall
                        /\ UNCHANGED <<db, lastPut>>
                   ELSE IF g.ret = "panic"
                   THEN /\ resp' = Response("POST", <<>>, StatusInternalServerError, <<>>)
                        /\ call' = NoCall
                        /\ UNCHANGED <<pc, db, lastPut>>
                   ELSE /\ call' = SaveCall(g.val, long_url, s)
                        /\ db' = s.db
                        /\ lastPut' = PutHistory(g.val, long_url, s)
                        /\ resp' = IF s.ret = "panic"
                                   THEN Response("POST", <<>>,
                                                 StatusInternalServerError, <<>>)
                                   ELSE Response("POST", <<>>, StatusOK,
                                                 Host \o g.val)
                        /\ UNCHANGED pc
    /\ UNCHANGED <<redisClient, redisUp, now, digest, pinged>>
    /\ UNCHANGED conc

\* GET /{segment}
HandleShortUrlRedirects(segment) ==
    /\ pc = "serving"
    /\ LET shortUrl == Param(segment, "shortUrl")
           r == RetrieveInitialUrl(shortUrl)
       IN  /\ call' = RetrieveCall(shortUrl, r)
           /\ resp' = IF r.ret = "panic"
                      THEN Response("GET", segment, StatusInternalServerError, <<>>)
                      ELSE Response("GET", segment, StatusFound, r.val)
    /\ gen' = NoGen
    /\ UNCHANGED <<pc, redisClient, redisUp, db, now, digest, lastPut, pinged,
                   firstGen>>
    /\ UNCHANGED conc

\* the store test calls SaveUrlMapping itself: a panic ends the test binary
DirectSave(shortUrl, originalUrl, userId) ==
    /\ pc = "testing"
    /\ LET s == SaveUrlMapping(shortUrl, originalUrl, userId)
       IN  /\ call' = SaveCall(shortUrl, originalUrl, s)
           /\ db' = s.db
           /\ lastPut' = PutHistory(shortUrl, originalUrl, s)
           /\ pc' = IF s.ret = "panic" THEN "crashed" ELSE pc
    /\ UNCHANGED <<redisClient, redisUp, now, digest, pinged, gen, firstGen, resp>>
    /\ UNCHANGED conc

\* the store test calls RetrieveInitialUrl itself
DirectRetrieve(shortUrl) ==
    /\ pc = "testing"
    /\ LET r == RetrieveInitialUrl(shortUrl)
       IN  /\ call' = RetrieveCall(shortUrl, r)
           /\ pc' = IF r.ret = "panic" THEN "crashed" ELSE pc
    /\ UNCHANGED <<redisClient, redisUp, db, now, digest, lastPut, pinged, gen,
                   firstGen, resp>>
    /\ UNCHANGED conc

\* the shortener test calls the generator itself
Generate(initialLink, userId) ==
    /\ pc = "gentest"
    /\ LET g == GeneratedLink(initialLink, userId)
       IN  /\ gen' = GenCall(initialLink, userId, g)
           /\ firstGen' = IF firstGen.ret = None
                          THEN GenCall(initialLink, userId, g) ELSE firstGen
           /\ pc' = IF g.ret = "ok" THEN pc ELSE "crashed"
    /\ UNCHANGED <<redisClient, redisUp, db, now, digest, lastPut, pinged, call,
                   resp>>
    /\ UNCHANGED conc

(* The environment *)

\* time passes; Redis drops the keys whose time to live is over
Tick ==
    /\ pc \in {"serving", "testing"}
    /\ now + TickStep <= MaxTime
    /\ now' = now + TickStep
    /\ db' = Expire(db, now + TickStep)
    /\ UNCHANGED <<pc, redisClient, redisUp, digest, lastPut, pinged, call, gen,
                   firstGen, resp>>
    /\ UNCHANGED conc

\* the Redis server stops answering
RedisFails ==
    /\ pc \in {"serving", "testing"}
    /\ redisUp
    /\ redisUp' = FALSE
    /\ UNCHANGED <<pc, redisClient, db, now, digest, lastPut, pinged, call, gen,
                   firstGen, resp>>
    /\ UNCHANGED conc

\* the Redis server answers again; it kept its keys
RedisRecovers ==
    /\ pc \in {"serving", "testing"}
    /\ ~redisUp
    /\ redisUp' = TRUE
    /\ UNCHANGED <<pc, redisClient, db, now, digest, lastPut, pinged, call, gen,
                   firstGen, resp>>
    /\ UNCHANGED conc

----------------------------------------------------------------------------
(* Concurrent serving: gin runs every request in a goroutine of its own; the
   handlers share storeService, and through it one Redis server, which
   executes the commands it receives one at a time *)

Handlers == 1..NumHandlers

\* a goroutine with no request
Idle == [op |-> "idle", key |-> <<>>, url |-> <<>>, cmds |-> <<>>,
         status |-> 0, err |-> None, body |-> <<>>]

\* a faulty variant: the value is written in two commands, its first
\* character and then the whole
SaveCommandsInTwoWrites(shortUrl, originalUrl) ==
    << [cmd |-> "SET", key |-> shortUrl, val |-> SubSeq(originalUrl, 1, 1),
        ttl |-> CacheDuration],
       [cmd |-> "SET", key |-> shortUrl, val |-> originalUrl,
        ttl |-> CacheDuration] >>

\* what SaveUrlMapping sends to Redis: one SET
SaveCommands(shortUrl, originalUrl) ==
    << [cmd |-> "SET", key |-> shortUrl, val |-> originalUrl,
        ttl |-> CacheDuration] >>

\* what RetrieveInitialUrl sends to Redis: one GET
RetrieveCommands(shortUrl) ==
    << [cmd |-> "GET", key |-> shortUrl, val |-> <<>>, ttl |-> 0] >>

\* a request goroutine enters CreateShortUrl: the code is generated, and the
\* Set is on its way to Redis
BeginCreateShortUrl(h, long_url, user_id) ==
    /\ pc = "serving"
    /\ tasks[h].op = "idle"
    /\ LET g == GeneratedLink(long_url, user_id)
       IN  IF g.ret = "exit"
           THEN /\ pc' = "crashed"
                /\ UNCHANGED conc
           ELSE IF g.ret = "panic"
           THEN /\ tasks' = [tasks EXCEPT ![h] =
                    [Idle EXCEPT !.op = "create", !.url = long_url,
                                 !.status = StatusInternalServerError]]
                /\ UNCHANGED <<pc, puts>>
           ELSE /\ tasks' = [tasks EXCEPT ![h] =
                    [Idle EXCEPT !.op = "create", !.key = g.val,
                                 !.url = long_url,
                                 !.cmds = SaveCommands(g.val, long_url)]]
                /\ puts' = puts \cup {[key |-> g.val, url |-> long_url]}
                /\ UNCHANGED pc
    /\ UNCHANGED <<redisClient, redisUp, db, now, digest, lastPut, pinged, call,
                   gen, firstGen, resp>>

\* a request goroutine enters HandleShortUrlRedirects: the Get is on its way
\* to Redis
BeginHandleShortUrlRedirects(h, segment) ==
    /\ pc = "serving"
    /\ tasks[h].op = "idle"
    /\ LET shortUrl == Param(segment, "shortUrl")
       IN  tasks' = [tasks EXCEPT ![h] =
               [Idle EXCEPT !.op = "redirect", !.key = shortUrl,
                            !.cmds = RetrieveCommands(shortUrl)]]
    /\ UNCHANGED <<pc, redisClient, redisUp, db, now, digest, lastPut, pinged,
                   call, gen, firstGen, resp, puts>>

\* Redis executes the next command of goroutine h and answers it; with the
\* last answer the handler has its response
RedisExecutes(h) ==
    /\ pc = "serving"
    /\ redisUp
    /\ tasks[h].cmds # <<>>
    /\ LET c == Head(tasks[h].cmds)
           rest == Tail(tasks[h].cmds)
           r == RedisGet(db, c.key)
       IN  IF c.cmd = "SET"
           THEN /\ db' = RedisSet(db, c.key, c.val, c.ttl)
                /\ tasks' = [tasks EXCEPT ![h] =
                     IF rest # <<>>
                     THEN [@ EXCEPT !.cmds = rest]
                     ELSE [@ EXCEPT !.cmds = rest, !.status = StatusOK,
                                    !.body = Host \o c.key]]
           ELSE /\ db' = db
                /\ tasks' = [tasks EXCEPT ![h] =
                     IF r.nil
                     THEN [@ EXCEPT !.cmds = rest, !.err = "redis: nil",
                                    !.status = StatusInternalServerError]
                     ELSE [@ EXCEPT !.cmds = rest, !.status = StatusFound,
                                    !.body = r.val]]
    /\ UNCHANGED <<pc, redisClient, redisUp, now, digest, lastPut, pinged, call,
                   gen, firstGen, resp, puts>>

\* the response of goroutine h is written and the goroutine ends
HandlerReturns(h) ==
    /\ pc = "serving"
    /\ tasks[h].op # "idle"
    /\ tasks[h].cmds = <<>>
    /\ tasks' = [tasks EXCEPT ![h] = Idle]
    /\ UNCHANGED <<pc, redisClient, redisUp, db, now, digest, lastPut, pinged,
                   call, gen, firstGen, resp, puts>>

----------------------------------------------------------------------------
(* The program: the server with the store-backed routes (main), the server
   of main.go (main0), or the store's test binary (init) *)

Init ==
    /\ pc \in {"main", "main0", "init"}
    /\ redisClient = "nil"
    /\ redisUp \in BOOLEAN
    /\ db = <<>>
    /\ now = 0
    /\ digest \in [Inputs -> ServiceDigests]
    /\ pc \in {"init", "main0"} => digest = DefaultDigest
    /\ lastPut = <<>>
    /\ pinged = "no"
    /\ call = NoCall
    /\ gen = NoGen
    /\ firstGen = NoGen
    /\ resp = NoResp
    /\ tasks = [h \in Handlers |-> Idle]
    /\ puts = {}

Next ==
    \/ MainStart
    \/ RootMainStart
    \/ ServeRoot
    \/ TestInit
    \/ \E q \in Requests \cup BadRequests : CreateShortUrl(q[1], q[2])
    \/ \E c \in RequestCodes : HandleShortUrlRedirects(c)
    \/ \E k \in TestKeys, q \in Requests : DirectSave(k, q[1], q[2])
    \/ \E k \in TestKeys : DirectRetrieve(k)
    \/ Tick
    \/ RedisFails
    \/ RedisRecovers

Spec == Init /\ [][Next]_vars

(* The generator on its own, as the shortener test runs it *)

InitGen ==
    /\ pc = "gentest"
    /\ redisClient = "nil"
    /\ redisUp = TRUE
    /\ db = <<>>
    /\ now = 0
    /\ digest \in [Inputs -> AllDigests]
    /\ lastPut = <<>>
    /\ pinged = "no"
    /\ call = NoCall
    /\ gen = NoGen
    /\ firstGen = NoGen
    /\ resp = NoResp
    /\ tasks = [h \in Handlers |-> Idle]
    /\ puts = {}

NextGen == \E q \in Requests : Generate(q[1], q[2])

SpecGen == InitGen /\ [][NextGen]_vars

(* The server once it listens, its requests served concurrently *)

InitConc ==
    /\ pc = "serving"
    /\ redisClient = "client"
    /\ redisUp = TRUE
    /\ db = <<>>
    /\ now = 0
    /\ digest \in [Inputs -> ServiceDigests]
    /\ lastPut = <<>>
    /\ pinged = "pong"
    /\ call = NoCall
    /\ gen = NoGen
    /\ firstGen = NoGen
    /\ resp = NoResp
    /\ tasks = [h \in Handlers |-> Idle]
    /\ puts = {}

NextConc ==
    \/ \E h \in Handlers, q \in Requests : BeginCreateShortUrl(h, q[1], q[2])
    \/ \E h \in Handlers, c \in RequestCodes : BeginHandleShortUrlRedirects(h, c)
    \/ \E h \in Handlers : RedisExecutes(h)
    \/ \E h \in Handlers : HandlerReturns(h)

SpecConc == InitConc /\ [][NextConc]_vars

----------------------------------------------------------------------------
(* Properties *)

\* the store answered the most recent store call (it was up, and the client set)
Answered == call.err \notin {"conn", "nilclient"}

\* the most recent store call is RetrieveInitialUrl of a key whose most
\* recent put is less than CacheDuration old at the time of the call
GetWithinTTL ==
    /\ call.fn = "RetrieveInitialUrl"
    /\ call.key \in DOMAIN lastPut
    /\ call.at - lastPut[call.key].at < CacheDuration

\* the most recent store call is RetrieveInitialUrl of a key whose most
\* recent put is CacheDuration old or older at the time of the call
GetAfterTTL ==
    /\ call.fn = "RetrieveInitialUrl"
    /\ call.key \in DOMAIN lastPut
    /\ call.at - lastPut[call.key].at >= CacheDuration

\* the most recent store call is RetrieveInitialUrl of a key never put
GetNeverPut ==
    /\ call.fn = "RetrieveInitialUrl"
    /\ call.key \notin DOMAIN lastPut

\* C1: a RetrieveInitialUrl(c) that the store answers less than CacheDuration
\* after the most recent SaveUrlMapping(c, longUrl, ownerId) returns exactly
\* that longUrl.
C1_RoundTrip ==
    (GetWithinTTL /\ Answered) =>
        /\ call.ret = "ok"
        /\ call.val = lastPut[call.key].url

\* C1 witness: a get made some hours after the put, still within the TTL,
\* returned the url that was put.
C1_Witness ==
    /\ GetWithinTTL
    /\ call.at > lastPut[call.key].at
    /\ call.ret = "ok"
    /\ call.val = lastPut[call.key].url

\* C2: RetrieveInitialUrl of a code that was never put returns a NotFound
\* error value to its caller; it does not panic and the process does not end.
C2_MissReturnsNotFound ==
    (GetNeverPut /\ Answered) =>
        /\ call.ret = "notfound"
        /\ pc # "crashed"

\* C3: once CacheDuration has elapsed since the most recent put of c,
\* RetrieveInitialUrl(c) returns NotFound and never the stored long url.
C3_ExpiredReturnsNotFound ==
    (GetAfterTTL /\ Answered) =>
        /\ call.ret = "notfound"
        /\ call.val # lastPut[call.key].url

\* C4: a put on a code that holds a live mapping is accepted like any other
\* (nothing detects or rejects the collision), and a get answered within the
\* TTL of that put returns the url of the second put.
C4_PutOverwrites ==
    /\ \A k \in DOMAIN lastPut :
          (lastPut[k].over # <<>> /\ now - lastPut[k].at < CacheDuration) =>
              /\ k \in DOMAIN db
              /\ db[k].val = lastPut[k].url
    /\ (GetWithinTTL /\ Answered /\ lastPut[call.key].over # <<>>) =>
          /\ call.ret = "ok"
          /\ call.val = lastPut[call.key].url

\* C4 witness: two creation requests with different long urls collided on
\* one code, and the get that followed returned the second url.
C4_Witness ==
    /\ GetWithinTTL
    /\ lastPut[call.key].over \notin {<<>>, lastPut[call.key].url}
    /\ call.ret = "ok"
    /\ call.val = lastPut[call.key].url
    /\ resp.status = StatusFound

\* the generator was called with the pair of its first call
SamePairAsFirst ==
    /\ gen.ret # None
    /\ gen.link = firstGen.link
    /\ gen.user = firstGen.user

C6_AlwaysEight ==
    gen.ret # None => (gen.ret = "ok" /\ Len(gen.val) = 8)

\* C7: the client is set, and the process goes on to serve or to test, only
\* after Ping succeeded; when Ping failed the process has ended with the
\* client unset, without any store call and without any response.
C7_PingBeforeServe ==
    /\ (redisClient = "client" \/ pc \in {"serving", "testing"}) => pinged = "pong"
    /\ call # NoCall => pinged = "pong"
    /\ resp # NoResp => pinged # "fail"
    /\ pinged = "fail" => (pc = "crashed" /\ redisClient = "nil")

\* C7 witness: Ping failed at startup and the process ended.
C7_Witness ==
    /\ pinged = "fail"
    /\ pc = "crashed"
    /\ redisClient = "nil"
    /\ resp = NoResp

C9_ErrorsBecomeResponses ==
    /\ (resp.req = "GET" /\ Answered /\ (GetNeverPut \/ GetAfterTTL)) =>
          resp.status = 404
    /\ (resp.req = "POST" /\ call.fn = "SaveUrlMapping" /\ call.ret # "ok") =>
          resp.status >= 400
    /\ resp.req # None => pc # "crashed"

\* the 58 symbols of the alphabet: the digits without 0, the capitals
\* without I and O, the small letters without l
ReadableSymbols ==
    { "1","2","3","4","5","6","7","8","9",
      "A","B","C","D","E","F","G","H","J","K","L","M","N","P","Q","R","S","T",
      "U","V","W","X","Y","Z",
      "a","b","c","d","e","f","g","h","i","j","k","m","n","o","p","q","r","s",
      "t","u","v","w","x","y","z" }

\* C10: every character of every code the generator returns is one of the
\* 58 symbols; none is "0", "O", "I" or "l".
C10_ReadableAlphabet ==
    gen.ret = "ok" =>
        \A i \in 1..Len(gen.val) :
            /\ gen.val[i] \in ReadableSymbols
            /\ gen.val[i] \notin {"0", "O", "I", "l"}

\* C10 witness: the generator returned the code the shortener test expects
\* for its first link, jTa4L57P.
C10_Witness ==
    /\ gen.ret = "ok"
    /\ gen.val = <<"j", "T", "a", "4", "L", "5", "7", "P">>

\* C13: a get leaves the keyspace as it was, values and expiry times alike;
\* a put changes nothing under any code but its own; and a mapping leaves
\* the keyspace only when its time to live is over.
C13_StoreFrame ==
    [][ /\ (call'.fn = "RetrieveInitialUrl" /\ now' = now) => db' = db
        /\ \A k \in DOMAIN db \ DOMAIN db' : db[k].exp <= now'
        /\ \A k \in DOMAIN db' :
              (k \notin DOMAIN db \/ db'[k] # db[k]) =>
                  /\ call'.fn = "SaveUrlMapping"
                  /\ call'.ret = "ok"
                  /\ call'.key = k
                  /\ call'.at = now ]_vars

\* C13 witness: with two codes in the store, one of them was read some hours
\* after it was put; its expiry time is still that of the put.
C13_Witness ==
    /\ call.fn = "RetrieveInitialUrl"
    /\ call.ret = "ok"
    /\ call.at = now
    /\ call.at > lastPut[call.key].at
    /\ Cardinality(DOMAIN db) >= 2
    /\ db[call.key].exp = lastPut[call.key].at + CacheDuration

\* the generator was called with a pair that differs from the pair of its
\* first call and concatenates to the same string
SameConcatenationAsFirst ==
    /\ gen.ret # None
    /\ <<gen.link, gen.user>> # <<firstGen.link, firstGen.user>>
    /\ gen.link \o gen.user = firstGen.link \o firstGen.user

\* C14: a call of the generator with a pair that concatenates to the string
\* of the first call's pair returns what the first call returned; when the
\* handler then saves, it writes under the first call's code, so the code
\* holds the second long url.
C14_ConcatenationOnly ==
    SameConcatenationAsFirst =>
        /\ gen.ret = firstGen.ret
        /\ gen.val = firstGen.val
        /\ (call.fn = "SaveUrlMapping" /\ call.ret = "ok") =>
              /\ call.key = firstGen.val
              /\ lastPut[firstGen.val].url = gen.link
              /\ call.at = now =>
                    (firstGen.val \in DOMAIN db /\ db[firstGen.val].val = gen.link)

\* C14 witness: ("a", "bc") was created first, then ("ab", "c"): same code,
\* and the second mapping came on top of the first, which was still alive.
C14_Witness ==
    /\ SameConcatenationAsFirst
    /\ gen.ret = "ok"
    /\ gen.val = firstGen.val
    /\ call.fn = "SaveUrlMapping"
    /\ call.ret = "ok"
    /\ call.at = now
    /\ lastPut[call.key].over = firstGen.link
    /\ db[call.key].val = gen.link
    /\ resp.status = StatusOK

\* C12 as stated: whenever the server accepts requests the store has been
\* initialized (the client in the shared handle is not nil), and no store
\* call is made on a nil client.
C12_InitializedBeforeServing ==
    /\ pc \in {"serving", "serving0"} => redisClient = "client"
    /\ call.fn # None => call.err # "nilclient"

\* C12 amended: the main that registers the store-backed routes accepts
\* requests only after InitializeStore returned with the client set; the
\* main of main.go never initializes the store and makes no store call; in
\* every execution no store call is made on a nil client.
C12_NoCallOnNilClient ==
    /\ pc = "serving" => (redisClient = "client" /\ pinged = "pong")
    /\ resp.req \in {"POST", "GET"} => redisClient = "client"
    /\ pc = "serving0" => (call = NoCall /\ resp.req \in {None, "GET /"})
    /\ call.fn # None => (call.err # "nilclient" /\ redisClient = "client")

\* C12 witness: the server saved a mapping through the initialized client.
C12_Witness ==
    /\ pc = "serving"
    /\ redisClient = "client"
    /\ call.fn = "SaveUrlMapping"
    /\ call.ret = "ok"
    /\ resp.status = StatusOK

\* C11: however the commands of concurrent handlers interleave, a get is
\* answered with redis.Nil or with the whole long URL of one put sent to the
\* same code; the value stored under a code is always the whole long URL of
\* one put sent to that code; and once no put is in flight every code that
\* was put holds such a value.
C11_AtomicKeyOperations ==
    /\ \A h \in Handlers :
          (tasks[h].op = "redirect" /\ tasks[h].cmds = <<>>) =>
              \/ tasks[h].err = "redis: nil" /\ tasks[h].body = <<>>
              \/ /\ tasks[h].status = StatusFound
                 /\ [key |-> tasks[h].key, url |-> tasks[h].body] \in puts
    /\ \A k \in DOMAIN db : [key |-> k, url |-> db[k].val] \in puts
    /\ (\A h \in Handlers : tasks[h].op = "create" => tasks[h].cmds = <<>>) =>
          \A p \in puts : p.key \in DOMAIN db

\* C11 witness: a get was answered with one long URL while another
\* goroutine's put of a different long URL to the same code was in flight.
C11_Witness ==
    \E h \in Handlers, g \in Handlers :
        /\ tasks[h].op = "redirect"
        /\ tasks[h].status = StatusFound
        /\ tasks[g].op = "create"
        /\ tasks[g].cmds # <<>>
        /\ tasks[g].key = tasks[h].key
        /\ tasks[g].url # tasks[h].body

====
